---- MODULE Spec2Model ----
(***************************************************************************)
(* Model of data/pipeline/audio-spliter/audio-spliter.py: the AudioSplitter*)
(* batch (process), the per-file pass (split_audio) with its greedy        *)
(* packing loop, and the sink (save_segment).                              *)
(*                                                                         *)
(* An AudioSegment is modelled by the sequence of the durations (ms) of    *)
(* the silence-delimited segments concatenated into it; len() of an        *)
(* AudioSegment is the sum of that sequence (pydub's += concatenates).     *)
(***************************************************************************)
EXTENDS Integers, Sequences, FiniteSets, TLC

\* ---------------------------------------------------------------- bounds
MaxSegs == 3
MaxFiles == 2

\* (min_segment_length, max_segment_length) pairs the constructor is given.
\* The last one violates min <= max; the constructor accepts it unchecked.
Configs ==
    { [min_segment_length |-> 0,    max_segment_length |-> 1000],
      [min_segment_length |-> 1500, max_segment_length |-> 1500],
      [min_segment_length |-> 1000, max_segment_length |-> 2000],
      [min_segment_length |-> 2000, max_segment_length |-> 1000] }

\* len(segment) of the segments split_on_silence may return, in ms.
Durations == {0, 400, 900, 1200, 2500}

\* ---------------------------------------------------------------- helpers
RECURSIVE SumSeq(_)
SumSeq(s) == IF s = <<>> THEN 0 ELSE Head(s) + SumSeq(Tail(s))

\* len(audio_segment): duration in ms
AudioLen(a) == SumSeq(a)

\* AudioSegment.silent(duration=0)
Silent == <<>>

\* all lists of at most n segments split_on_silence may return
SegLists(n) == UNION { [1..k -> Durations] : k \in 0..n }

\* segment_end as it would be with round(len / 1000) in place of len // 1000
SegmentEnd_roundsNearest(start, audio) ==
    start + ((AudioLen(audio) + 500) \div 1000)

\* segment_end as it would be with the duration rounded up to whole seconds
SegmentEnd_roundsUp(start, audio) ==
    start + ((AudioLen(audio) + 999) \div 1000)

\* the value of segment_end at a flush: segment_start + len(current)//1000
SegmentEnd(start, audio) == start + (AudioLen(audio) \div 1000)

VARIABLES
    pc,               \* position in the program
    cfg,              \* self.min_segment_length / self.max_segment_length
    audio_files,      \* number of .wav files listed (files are 1..audio_files)
    file_idx,         \* index of the file the for loop of process is at
    attempted,        \* files split_audio was called with, in call order
    segments,         \* result of split_on_silence for the current file
    seg_idx,          \* number of segments the for loop has consumed
    current_segment,  \* the accumulator
    segment_start,    \* start offset (s) of the accumulator
    handed,           \* calls of save_segment made in the current pass
    output_dir,       \* files of the current file's output folder
    log               \* logger.exception calls, counted per handler: those
                      \* of process and split_audio over the batch, those of
                      \* save_segment ("Failed to save segment {file_name}")
                      \* for the file being processed

vars == <<pc, cfg, audio_files, file_idx, attempted, segments, seg_idx,
          current_segment, segment_start, handed, output_dir, log>>

passVars == <<segments, seg_idx, current_segment, segment_start, handed,
              output_dir>>

\* the name {file_name}.{start_time}.{end_time}.wav inside the file's folder
SegmentFilename(start_time, end_time) == <<start_time, end_time>>

Init ==
    /\ pc = "construct"
    /\ cfg \in Configs
    /\ audio_files = 0
    /\ file_idx = 0
    /\ attempted = <<>>
    /\ segments = <<>>
    /\ seg_idx = 0
    /\ current_segment = Silent
    /\ segment_start = 0
    /\ handed = <<>>
    /\ output_dir = {}
    /\ log = [process |-> 0, file |-> 0, save |-> 0]

\* logger.exception(...) in the except clause of process, split_audio or
\* save_segment
Logged(handler) == [log EXCEPT ![handler] = @ + 1]

\* ------------------------------------------------------------ save_segment
\* segment.export(segment_path): writes (or overwrites) the file of that name
Export(dir, name, segment) ==
    { f \in dir : f.name # name } \cup { [name |-> name, audio |-> segment] }

\* save_segment as it would be without its try/except: a failed export
\* propagates to the except clause of split_audio, which ends the pass.
save_segment_raises(segment, start_time, end_time, ok, ret) ==
    /\ handed' = Append(handed, [audio |-> segment,
                                 start_time |-> start_time,
                                 end_time |-> end_time])
    /\ IF ok
       THEN /\ pc' = ret
            /\ output_dir' = Export(output_dir,
                                    SegmentFilename(start_time, end_time),
                                    segment)
            /\ log' = log
       ELSE /\ pc' = "next"
            /\ output_dir' = output_dir
            /\ log' = Logged("file")

\* save_segment(segment, file_name, start_time, end_time); ok = FALSE is an
\* export that raises: the handler logs it and the call returns normally, so
\* the caller continues at ret in either case.
save_segment(segment, start_time, end_time, ok, ret) ==
    /\ pc' = ret
    /\ handed' = Append(handed, [audio |-> segment,
                                 start_time |-> start_time,
                                 end_time |-> end_time])
    /\ IF ok
       THEN /\ output_dir' = Export(output_dir,
                                    SegmentFilename(start_time, end_time),
                                    segment)
            /\ log' = log
       ELSE /\ output_dir' = output_dir
            /\ log' = Logged("save")

\* ---------------------------------------------------------------- __init__
\* The constructor stores its arguments and creates the output folder.
Construct ==
    /\ pc = "construct"
    /\ pc' = "process"
    /\ UNCHANGED <<cfg, audio_files, file_idx, attempted, log>>
    /\ UNCHANGED passVars

\* Path.mkdir raises: the exception leaves the constructor and the script.
ConstructFail ==
    /\ pc = "construct"
    /\ pc' = "crashed"
    /\ UNCHANGED <<cfg, audio_files, file_idx, attempted, log>>
    /\ UNCHANGED passVars

\* ----------------------------------------------------------------- process
\* os.listdir returned at least one .wav file
ListFiles ==
    /\ pc = "process"
    /\ \E n \in 1..MaxFiles : audio_files' = n
    /\ pc' = "next"
    /\ UNCHANGED <<cfg, file_idx, attempted, log>>
    /\ UNCHANGED passVars

\* an empty listing as it would be without the "if not audio_files" test:
\* the for loop runs zero times and process returns without a report
NoFiles_silent ==
    /\ pc = "process"
    /\ audio_files' = 0
    /\ pc' = "done"
    /\ UNCHANGED <<cfg, file_idx, attempted, log>>
    /\ UNCHANGED passVars

\* no .wav file: FileNotFoundError is raised and caught by process itself
NoFiles ==
    /\ pc = "process"
    /\ audio_files' = 0
    /\ log' = Logged("process")
    /\ pc' = "done"
    /\ UNCHANGED <<cfg, file_idx, attempted>>
    /\ UNCHANGED passVars

\* os.listdir raises
ListFail ==
    /\ pc = "process"
    /\ log' = Logged("process")
    /\ pc' = "done"
    /\ UNCHANGED <<cfg, audio_files, file_idx, attempted>>
    /\ UNCHANGED passVars

\* for audio_file in audio_files: self.split_audio(...)
NextFile ==
    /\ pc = "next"
    /\ file_idx < audio_files
    /\ file_idx' = file_idx + 1
    /\ attempted' = Append(attempted, file_idx + 1)
    /\ segments' = <<>>
    /\ seg_idx' = 0
    /\ current_segment' = Silent
    /\ segment_start' = 0
    /\ handed' = <<>>
    /\ output_dir' = {}
    /\ log' = [log EXCEPT !.save = 0]
    /\ pc' = "decode"
    /\ UNCHANGED <<cfg, audio_files>>

BatchDone ==
    /\ pc = "next"
    /\ file_idx = audio_files
    /\ pc' = "done"
    /\ UNCHANGED <<cfg, audio_files, file_idx, attempted, log>>
    /\ UNCHANGED passVars

\* ------------------------------------------------------------- split_audio
\* the except clause of split_audio as it would be if it re-raised: the
\* except clause of process catches it and the batch ends.
FileFailure_aborts(at) ==
    /\ pc = at
    /\ log' = Logged("process")
    /\ pc' = "done"
    /\ UNCHANGED <<cfg, audio_files, file_idx, attempted>>
    /\ UNCHANGED passVars

\* the except clause of split_audio: log, return to the loop of process
FileFailure(at) ==
    /\ pc = at
    /\ log' = Logged("file")
    /\ pc' = "next"
    /\ UNCHANGED <<cfg, audio_files, file_idx, attempted>>
    /\ UNCHANGED passVars

Decode ==
    /\ pc = "decode"
    /\ pc' = "mkdir"
    /\ UNCHANGED <<cfg, audio_files, file_idx, attempted, log>>
    /\ UNCHANGED passVars

DecodeFail == FileFailure("decode")

MkOutputDir ==
    /\ pc = "mkdir"
    /\ pc' = "detect"
    /\ UNCHANGED <<cfg, audio_files, file_idx, attempted, log>>
    /\ UNCHANGED passVars

MkOutputDirFail == FileFailure("mkdir")

\* segments = split_on_silence(...); current_segment = silent(0);
\* segment_start = 0
Detect ==
    /\ pc = "detect"
    /\ segments' \in SegLists(MaxSegs)
    /\ current_segment' = Silent
    /\ segment_start' = 0
    /\ seg_idx' = 0
    /\ pc' = "loop"
    /\ UNCHANGED <<cfg, audio_files, file_idx, attempted, log, handed,
                   output_dir>>

DetectFail == FileFailure("detect")

\* the segment the for loop is about to process
segment == segments[seg_idx + 1]

InLoop == pc = "loop" /\ seg_idx < Len(segments)

\* len(current_segment) + len(segment)
Projected == AudioLen(current_segment) + segment

\* Case A as it would be if it moved segment_start on every append
CaseA_advancesStart ==
    /\ InLoop
    /\ Projected < cfg.min_segment_length
    /\ current_segment' = Append(current_segment, segment)
    /\ segment_start' =
          SegmentEnd(segment_start, Append(current_segment, segment))
    /\ seg_idx' = seg_idx + 1
    /\ UNCHANGED <<pc, cfg, audio_files, file_idx, attempted, segments,
                   handed, output_dir, log>>

\* Case A as it would be with "current_segment = segment + current_segment"
CaseA_prepends ==
    /\ InLoop
    /\ Projected < cfg.min_segment_length
    /\ current_segment' = <<segment>> \o current_segment
    /\ seg_idx' = seg_idx + 1
    /\ UNCHANGED <<pc, cfg, audio_files, file_idx, attempted, segments,
                   segment_start, handed, output_dir, log>>

\* Case A: if projected < min_segment_length: current_segment += segment
CaseA ==
    /\ InLoop
    /\ Projected < cfg.min_segment_length
    /\ current_segment' = Append(current_segment, segment)
    /\ seg_idx' = seg_idx + 1
    /\ UNCHANGED <<pc, cfg, audio_files, file_idx, attempted, segments,
                   segment_start, handed, output_dir, log>>

\* Case B as it would be if the accumulator were restarted from silence: the
\* segment that triggered the flush is lost.
CaseB_dropsSegment ==
    /\ InLoop
    /\ ~(Projected < cfg.min_segment_length)
    /\ Projected > cfg.max_segment_length
    /\ \E ok \in BOOLEAN :
          save_segment(current_segment, segment_start,
                       SegmentEnd(segment_start, current_segment), ok,
                       "loop")
    /\ segment_start' = SegmentEnd(segment_start, current_segment)
    /\ current_segment' = Silent
    /\ seg_idx' = seg_idx + 1
    /\ UNCHANGED <<cfg, audio_files, file_idx, attempted, segments>>

\* Case B as it would be if the segment were appended before the flush.
CaseB_appendsFirst ==
    /\ InLoop
    /\ ~(Projected < cfg.min_segment_length)
    /\ Projected > cfg.max_segment_length
    /\ LET appended == Append(current_segment, segment)
       IN /\ \E ok \in BOOLEAN :
                save_segment(appended, segment_start,
                             SegmentEnd(segment_start, appended), ok,
                             "loop")
          /\ segment_start' = SegmentEnd(segment_start, appended)
    /\ current_segment' = Silent
    /\ seg_idx' = seg_idx + 1
    /\ UNCHANGED <<cfg, audio_files, file_idx, attempted, segments>>

\* Case B as it would be with "current_segment += segment" after the flush
CaseB_keepsAccumulator ==
    /\ InLoop
    /\ ~(Projected < cfg.min_segment_length)
    /\ Projected > cfg.max_segment_length
    /\ \E ok \in BOOLEAN :
          save_segment(current_segment, segment_start,
                       SegmentEnd(segment_start, current_segment), ok,
                       "loop")
    /\ segment_start' = SegmentEnd(segment_start, current_segment)
    /\ current_segment' = Append(current_segment, segment)
    /\ seg_idx' = seg_idx + 1
    /\ UNCHANGED <<cfg, audio_files, file_idx, attempted, segments>>

\* Case B: elif projected > max_segment_length: save the accumulator as it
\* is, then restart it from the segment
CaseB ==
    /\ InLoop
    /\ ~(Projected < cfg.min_segment_length)
    /\ Projected > cfg.max_segment_length
    /\ \E ok \in BOOLEAN :
          save_segment(current_segment, segment_start,
                       SegmentEnd(segment_start, current_segment), ok,
                       "loop")
    /\ segment_start' = SegmentEnd(segment_start, current_segment)
    /\ current_segment' = <<segment>>
    /\ seg_idx' = seg_idx + 1
    /\ UNCHANGED <<cfg, audio_files, file_idx, attempted, segments>>

\* Case C as it would be without "segment_start = segment_end".
CaseC_keepsStart ==
    /\ InLoop
    /\ ~(Projected < cfg.min_segment_length)
    /\ ~(Projected > cfg.max_segment_length)
    /\ LET appended == Append(current_segment, segment)
       IN \E ok \in BOOLEAN :
             save_segment(appended, segment_start,
                          SegmentEnd(segment_start, appended), ok,
                          "loop")
    /\ current_segment' = Silent
    /\ seg_idx' = seg_idx + 1
    /\ UNCHANGED <<cfg, audio_files, file_idx, attempted, segments,
                   segment_start>>

\* Case C as it would be with the body of Case B: flush before appending.
CaseC_flushesBeforeAppend ==
    /\ InLoop
    /\ ~(Projected < cfg.min_segment_length)
    /\ ~(Projected > cfg.max_segment_length)
    /\ \E ok \in BOOLEAN :
          save_segment(current_segment, segment_start,
                       SegmentEnd(segment_start, current_segment), ok,
                       "loop")
    /\ segment_start' = SegmentEnd(segment_start, current_segment)
    /\ current_segment' = <<segment>>
    /\ seg_idx' = seg_idx + 1
    /\ UNCHANGED <<cfg, audio_files, file_idx, attempted, segments>>

\* Case C: else: append, save, restart from silence
CaseC ==
    /\ InLoop
    /\ ~(Projected < cfg.min_segment_length)
    /\ ~(Projected > cfg.max_segment_length)
    /\ LET appended == Append(current_segment, segment)
       IN /\ \E ok \in BOOLEAN :
                save_segment(appended, segment_start,
                             SegmentEnd(segment_start, appended), ok,
                             "loop")
          /\ segment_start' = SegmentEnd(segment_start, appended)
    /\ current_segment' = Silent
    /\ seg_idx' = seg_idx + 1
    /\ UNCHANGED <<cfg, audio_files, file_idx, attempted, segments>>

\* the trailing flush as it would be without its "> 0" test
TrailingFlush_always ==
    /\ pc = "loop"
    /\ seg_idx = Len(segments)
    /\ \E ok \in BOOLEAN :
          save_segment(current_segment, segment_start,
                       SegmentEnd(segment_start, current_segment), ok,
                       "packed")
    /\ UNCHANGED <<cfg, audio_files, file_idx, attempted, segments, seg_idx,
                   current_segment, segment_start>>

\* after the loop: if len(current_segment) > 0: save it
TrailingFlush ==
    /\ pc = "loop"
    /\ seg_idx = Len(segments)
    /\ AudioLen(current_segment) > 0
    /\ \E ok \in BOOLEAN :
          save_segment(current_segment, segment_start,
                       SegmentEnd(segment_start, current_segment), ok,
                       "packed")
    /\ UNCHANGED <<cfg, audio_files, file_idx, attempted, segments, seg_idx,
                   current_segment, segment_start>>

NoTrailingFlush ==
    /\ pc = "loop"
    /\ seg_idx = Len(segments)
    /\ ~(AudioLen(current_segment) > 0)
    /\ pc' = "packed"
    /\ UNCHANGED <<cfg, audio_files, file_idx, attempted, log>>
    /\ UNCHANGED passVars

\* split_audio returns normally: its locals go out of scope, and the record
\* of the pass (the calls of save_segment, the file's output folder) is of
\* no further use to the batch
Return ==
    /\ pc = "packed"
    /\ pc' = "next"
    /\ segments' = <<>>
    /\ seg_idx' = 0
    /\ current_segment' = Silent
    /\ segment_start' = 0
    /\ handed' = <<>>
    /\ output_dir' = {}
    /\ log' = [log EXCEPT !.save = 0]
    /\ UNCHANGED <<cfg, audio_files, file_idx, attempted>>

\* ---------------------------------------------- the packing loop, as a fold
\* The body of the for loop of split_audio on the loop's local state
\* (current_segment, segment_start, groups passed to save_segment so far).
Group(audio, start) ==
    [audio |-> audio, start_time |-> start,
     end_time |-> SegmentEnd(start, audio)]

PackInit == [current_segment |-> Silent, segment_start |-> 0, out |-> <<>>]

PackStep(st, seg, c) ==
    LET projected == AudioLen(st.current_segment) + seg
        appended == Append(st.current_segment, seg)
    IN IF projected < c.min_segment_length
       THEN [st EXCEPT !.current_segment = appended]
       ELSE IF projected > c.max_segment_length
       THEN [current_segment |-> <<seg>>,
             segment_start |-> SegmentEnd(st.segment_start,
                                          st.current_segment),
             out |-> Append(st.out, Group(st.current_segment,
                                          st.segment_start))]
       ELSE [current_segment |-> Silent,
             segment_start |-> SegmentEnd(st.segment_start, appended),
             out |-> Append(st.out, Group(appended, st.segment_start))]

RECURSIVE PackLoop(_, _, _)
PackLoop(segs, c, st) ==
    IF segs = <<>> THEN st
    ELSE PackLoop(Tail(segs), c, PackStep(st, Head(segs), c))

\* the groups a whole pass passes to save_segment, trailing flush included
PackAll(segs, c) ==
    LET st == PackLoop(segs, c, PackInit)
    IN IF AudioLen(st.current_segment) > 0
       THEN Append(st.out, Group(st.current_segment, st.segment_start))
       ELSE st.out

Next ==
    \/ Construct \/ ConstructFail
    \/ ListFiles \/ NoFiles \/ ListFail
    \/ NextFile \/ BatchDone
    \/ Decode \/ DecodeFail
    \/ MkOutputDir \/ MkOutputDirFail
    \/ Detect \/ DetectFail
    \/ CaseA \/ CaseB \/ CaseC
    \/ TrailingFlush \/ NoTrailingFlush
    \/ Return

Spec == Init /\ [][Next]_vars

\* ------------------------------------------------------------- properties
\* the configuration satisfies min_segment_length <= max_segment_length
ValidCfg == cfg.min_segment_length <= cfg.max_segment_length

\* duration (ms) of a group handed to save_segment
GroupMs(g) == AudioLen(g.audio)

RECURSIVE HandedMs(_)
HandedMs(h) == IF h = <<>> THEN 0 ELSE GroupMs(Head(h)) + HandedMs(Tail(h))

\* the segments the loop has consumed so far
Consumed == SubSeq(segments, 1, seg_idx)

\* C1 (Conservation): under min <= max, after each segment is processed the
\* durations of the groups emitted so far plus the accumulator's duration
\* equal the durations of the segments consumed so far, and when the pass
\* ends the emitted durations sum to the input durations exactly.
C1_Conservation ==
    ValidCfg =>
        /\ pc = "loop" =>
              HandedMs(handed) + AudioLen(current_segment) = SumSeq(Consumed)
        /\ pc = "packed" => HandedMs(handed) = SumSeq(segments)

\* a finished pass over three or more segments that took Case B and emitted
\* at least two groups with positive total duration
C1_Witness ==
    /\ ValidCfg
    /\ pc = "packed"
    /\ Len(segments) >= 3
    /\ Len(handed) >= 2
    /\ HandedMs(handed) = SumSeq(segments)
    /\ \E i \in 1..Len(handed) :
          /\ GroupMs(handed[i]) > 0
          /\ GroupMs(handed[i]) < cfg.min_segment_length

\* C2 (Contiguity): under min <= max, the first emitted group starts at 0,
\* every group has start <= end, and each group starts where the previous
\* one ended, whichever branch emitted it.
C2_Contiguity ==
    ValidCfg =>
        /\ handed # <<>> => handed[1].start_time = 0
        /\ \A i \in 1..Len(handed) :
              handed[i].start_time <= handed[i].end_time
        /\ \A i \in 1..(Len(handed) - 1) :
              handed[i].end_time = handed[i + 1].start_time

\* a finished pass whose three groups came from Case C, Case B and the
\* trailing flush, with time advancing
C2_Witness ==
    /\ ValidCfg
    /\ pc = "packed"
    /\ Len(handed) >= 3
    /\ handed[2].start_time > 0
    /\ handed[Len(handed)].start_time > handed[2].start_time
    /\ handed[Len(handed)].audio = current_segment
    /\ \E i \in 1..(Len(handed) - 1) :
          GroupMs(handed[i]) < cfg.min_segment_length

\* C3 as stated (Band floor): at the end of a pass with min <= max, every
\* emitted group but the last has duration >= min unless the group is a
\* single segment longer than max or the segment that flushed it (the first
\* segment of the next group) is longer than max.
C3_BandFloorAsStated ==
    (ValidCfg /\ pc = "packed") =>
        \A i \in 1..(Len(handed) - 1) :
            \/ GroupMs(handed[i]) >= cfg.min_segment_length
            \/ /\ Len(handed[i].audio) = 1
               /\ handed[i].audio[1] > cfg.max_segment_length
            \/ /\ handed[i + 1].audio # <<>>
               /\ handed[i + 1].audio[1] > cfg.max_segment_length

\* C3 amended (Band floor): at the end of a pass with min <= max, every
\* emitted group but the last has duration >= min unless it was flushed by
\* a segment (the first segment of the next group) whose duration added to
\* the group's exceeds max.
C3_BandFloor ==
    (ValidCfg /\ pc = "packed") =>
        \A i \in 1..(Len(handed) - 1) :
            \/ GroupMs(handed[i]) >= cfg.min_segment_length
            \/ /\ handed[i + 1].audio # <<>>
               /\ GroupMs(handed[i]) + handed[i + 1].audio[1]
                     > cfg.max_segment_length

\* a finished pass with a non-final group below min that was flushed by a
\* segment no longer than max, and a non-final group inside the band
C3_Witness ==
    /\ ValidCfg
    /\ pc = "packed"
    /\ \E i \in 1..(Len(handed) - 1) :
          /\ GroupMs(handed[i]) > 0
          /\ GroupMs(handed[i]) < cfg.min_segment_length
          /\ handed[i + 1].audio[1] <= cfg.max_segment_length
    /\ \E i \in 1..(Len(handed) - 1) :
          GroupMs(handed[i]) >= cfg.min_segment_length

\* C4 (Band ceiling): under min <= max, no emitted group, the last included,
\* is longer than max unless it consists of exactly one input segment that
\* is itself longer than max.
C4_BandCeiling ==
    ValidCfg =>
        \A i \in 1..Len(handed) :
            GroupMs(handed[i]) > cfg.max_segment_length =>
                /\ Len(handed[i].audio) = 1
                /\ handed[i].audio[1] > cfg.max_segment_length

\* a finished pass that emitted an oversized single segment and also a
\* group of several segments
C4_Witness ==
    /\ ValidCfg
    /\ pc = "packed"
    /\ \E i \in 1..Len(handed) :
          GroupMs(handed[i]) > cfg.max_segment_length
    /\ \E i \in 1..Len(handed) : Len(handed[i].audio) >= 2

\* C5 as stated (InvalidConfig): when min > max the run fails before any
\* processing starts: no file is attempted, no group is emitted or saved.
C5_InvalidConfigRejected ==
    ~ValidCfg =>
        /\ attempted = <<>>
        /\ handed = <<>>
        /\ output_dir = {}

\* C6 as stated (Trailing flush): at the end of a pass with min <= max,
\* (a) a total input duration of zero gives an empty output, (b) an
\* accumulator with positive duration is the last emitted group and is
\* emitted once, and an input summing to less than min gives the single
\* group [0, floor(sum / 1000)].
C6_TrailingFlush ==
    (ValidCfg /\ pc = "packed") =>
        /\ SumSeq(segments) = 0 => handed = <<>>
        /\ AudioLen(current_segment) > 0 =>
              /\ handed # <<>>
              /\ handed[Len(handed)].audio = current_segment
              /\ HandedMs(handed) = SumSeq(segments)
        /\ (0 < SumSeq(segments)
              /\ SumSeq(segments) < cfg.min_segment_length) =>
              handed = << [audio |-> segments, start_time |-> 0,
                           end_time |-> SumSeq(segments) \div 1000] >>
        /\ HandedMs(handed) = SumSeq(segments)

\* C7 (Empty input): under min <= max, a pass over an empty segment list
\* reaches its end with nothing handed to the sink and nothing saved.
C7_EmptyInput ==
    (ValidCfg /\ segments = <<>> /\ pc \in {"loop", "packed"}) =>
        /\ handed = <<>>
        /\ output_dir = {}
        /\ current_segment = Silent
        /\ pc = "loop" => ENABLED NoTrailingFlush

\* a pass over an empty segment list that has ended
C7_Witness ==
    /\ ValidCfg
    /\ pc = "packed"
    /\ segments = <<>>
    /\ handed = <<>>

\* C8 as stated (One file per OutputGroup): under min <= max, two distinct
\* groups emitted in one pass have distinct (start_time, end_time) pairs,
\* hence distinct file names.
C8_DistinctFilenames ==
    ValidCfg =>
        \A i, j \in 1..Len(handed) :
            i # j =>
                SegmentFilename(handed[i].start_time, handed[i].end_time)
                    # SegmentFilename(handed[j].start_time,
                                      handed[j].end_time)

\* a step of split_audio that fails and is taken by its except clause
FileFailureStep ==
    /\ pc \in {"decode", "mkdir", "detect"}
    /\ pc' \notin {"mkdir", "detect", "loop"}

C10_SaveIsolation ==
    /\ [](/\ pc = "loop" =>
               LET st == PackLoop(Consumed, cfg, PackInit)
               IN /\ handed = st.out
                  /\ current_segment = st.current_segment
                  /\ segment_start = st.segment_start
          /\ pc = "packed" => handed = PackAll(segments, cfg))
    /\ [][pc = "loop" => pc' \in {"loop", "packed"}]_vars

\* a finished pass of the first file in which two or more saves failed and
\* three or more groups were handed to the sink
C10_Witness ==
    /\ pc = "packed"
    /\ file_idx = 1
    /\ log.save >= 2
    /\ Len(handed) >= 3
    /\ Cardinality(output_dir) >= 1

\* C11 (NoInputFiles): a batch that leaves the listing step without any
\* file reports exactly one error from process and ends at once: no file is
\* attempted, no group is handed to the sink or saved, and nothing else is
\* logged.
C11_NoInputFiles ==
    /\ []((pc = "done" /\ audio_files = 0) =>
             /\ log = [process |-> 1, file |-> 0, save |-> 0]
             /\ attempted = <<>>
             /\ file_idx = 0
             /\ segments = <<>>
             /\ handed = <<>>
             /\ output_dir = {})
    /\ [][(pc = "process" /\ audio_files' = 0) =>
             /\ pc' = "done"
             /\ log'.process = log.process + 1]_vars

\* a batch that ended on an empty listing with its one report
C11_Witness ==
    /\ pc = "done"
    /\ audio_files = 0
    /\ log.process = 1
    /\ attempted = <<>>

\* a step of the loop that absorbs the segment: nothing is handed to the
\* sink and the accumulator's duration and start offset stay as they were
AbsorbedStep ==
    /\ pc' = "loop"
    /\ seg_idx' = seg_idx + 1
    /\ handed' = handed
    /\ output_dir' = output_dir
    /\ AudioLen(current_segment') = AudioLen(current_segment)
    /\ segment_start' = segment_start

\* C12 as stated (Zero-duration segments): under min <= max, from every
\* reachable accumulator state a segment of duration 0 is absorbed: the
\* step emits no group and leaves the accumulator's duration and start
\* offset unchanged.
C12_ZeroAbsorbedAsStated ==
    [][(ValidCfg /\ InLoop /\ segment = 0) => AbsorbedStep]_vars

\* C12 amended (Zero-duration segments): under min <= max, a segment of
\* duration 0 that arrives while the accumulator's duration is below min is
\* absorbed: the step emits no group and leaves the accumulator's duration
\* and start offset unchanged.
C12_ZeroAbsorbed ==
    [][(ValidCfg /\ InLoop /\ segment = 0
          /\ AudioLen(current_segment) < cfg.min_segment_length)
        => AbsorbedStep]_vars

\* the loop has just absorbed a zero-duration segment into an accumulator
\* of a second or more
C12_Witness ==
    /\ ValidCfg
    /\ pc = "loop"
    /\ seg_idx >= 2
    /\ segments[seg_idx] = 0
    /\ Len(current_segment) >= 2
    /\ current_segment[Len(current_segment)] = 0
    /\ AudioLen(current_segment) >= 1000
    /\ AudioLen(current_segment) < cfg.min_segment_length

\* the audio holds a segment longer than max_segment_length
HasOversized(audio) ==
    \E k \in 1..Len(audio) : audio[k] > cfg.max_segment_length

\* C13 (Oversized segments are never split or merged): under min <= max, a
\* segment longer than max becomes the sole content of the accumulator in
\* the step that consumes it, the very next step of the pass (next segment
\* or end of stream) hands that accumulator to the sink as it is, and every
\* emitted group or accumulator that holds an oversized segment holds
\* nothing else.
C13_OversizedAlone ==
    /\ [](ValidCfg =>
             /\ \A i \in 1..Len(handed) :
                   HasOversized(handed[i].audio) =>
                       Len(handed[i].audio) = 1
             /\ HasOversized(current_segment) => Len(current_segment) = 1)
    /\ [][(ValidCfg /\ InLoop /\ segment > cfg.max_segment_length) =>
             /\ current_segment' = <<segment>>
             /\ handed' = Append(handed,
                                 Group(current_segment, segment_start))]_vars
    /\ [][(ValidCfg /\ pc = "loop" /\ HasOversized(current_segment)) =>
             /\ handed' = Append(handed,
                                 Group(current_segment, segment_start))
             /\ pc' \in {"loop", "packed"}]_vars

\* a finished pass whose last group is an oversized segment flushed whole by
\* the end of the stream, after an earlier non-empty group that holds no
\* oversized segment
C13_Witness ==
    /\ ValidCfg
    /\ pc = "packed"
    /\ Len(handed) >= 2
    /\ HasOversized(handed[Len(handed)].audio)
    /\ handed[Len(handed)].audio = current_segment
    /\ \E i \in 1..(Len(handed) - 1) :
          /\ GroupMs(handed[i]) > 0
          /\ ~HasOversized(handed[i].audio)

\* C14 (Timestamp truncation): every group handed to the sink, whichever
\* branch emitted it, has end_time - start_time = floor(duration_ms / 1000)
\* for the duration of the audio handed over, and an append adds the
\* segment's milliseconds to the accumulator untruncated.
C14_Truncation ==
    /\ [](\A i \in 1..Len(handed) :
             handed[i].end_time - handed[i].start_time
                 = GroupMs(handed[i]) \div 1000)
    /\ [][(InLoop /\ handed' = handed) =>
             AudioLen(current_segment') =
                 AudioLen(current_segment) + segment]_vars

\* a finished pass that emitted three or more groups, the last by the
\* trailing flush, none of a whole number of seconds and one of them longer
\* than a second with half a second or more cut off
C14_Witness ==
    /\ pc = "packed"
    /\ Len(handed) >= 3
    /\ handed[Len(handed)].audio = current_segment
    /\ \A i \in 1..Len(handed) : GroupMs(handed[i]) % 1000 # 0
    /\ \E i \in 1..Len(handed) :
          /\ GroupMs(handed[i]) > 1000
          /\ GroupMs(handed[i]) % 1000 >= 500

\* the group most recently handed to the sink
LastHanded == handed[Len(handed)]

C16_CaseCStep ==
    /\ [][(InLoop /\ cfg.min_segment_length <= Projected
                  /\ Projected <= cfg.max_segment_length) =>
             /\ handed' = Append(handed,
                   [audio |-> Append(current_segment, segment),
                    start_time |-> segment_start,
                    end_time |-> segment_start + (Projected \div 1000)])
             /\ GroupMs(handed'[Len(handed')]) >= cfg.min_segment_length
             /\ GroupMs(handed'[Len(handed')]) <= cfg.max_segment_length
             /\ current_segment' = Silent
             /\ AudioLen(current_segment') = 0
             /\ segment_start' = handed'[Len(handed')].end_time
             /\ seg_idx' = seg_idx + 1
             /\ pc' = "loop"]_vars
    /\ [][(InLoop /\ Projected < cfg.min_segment_length) =>
             /\ handed' = handed
             /\ output_dir' = output_dir]_vars

\* the loop has just taken Case C on an accumulator that already held a
\* segment: the group handed over has two or more segments, ends with the
\* segment just consumed, and the accumulator is empty at the group's end
C16_Witness ==
    /\ ValidCfg
    /\ pc = "loop"
    /\ seg_idx >= 2
    /\ handed # <<>>
    /\ current_segment = Silent
    /\ Len(LastHanded.audio) >= 2
    /\ LastHanded.audio[Len(LastHanded.audio)] = segments[seg_idx]
    /\ segments[seg_idx] > 0
    /\ GroupMs(LastHanded) >= cfg.min_segment_length
    /\ GroupMs(LastHanded) <= cfg.max_segment_length
    /\ segment_start = LastHanded.end_time
    /\ segment_start > 0

\* the segments of the groups handed to the sink, in emission order
RECURSIVE HandedSegments(_)
HandedSegments(h) ==
    IF h = <<>> THEN <<>> ELSE Head(h).audio \o HandedSegments(Tail(h))

\* C17 as stated (Order-preserving packing): at the end of a pass the
\* segments of the emitted groups, in emission order, are exactly the input
\* segment sequence.
C17_OrderPreservedAsStated ==
    pc = "packed" => HandedSegments(handed) = segments

\* the segments a finished pass has left in its accumulator without handing
\* them to the sink
Unemitted ==
    IF AudioLen(current_segment) > 0 THEN <<>> ELSE current_segment

\* C17 amended (Order-preserving packing): the segments of the emitted
\* groups, in emission order, followed by the accumulator's, are exactly the
\* segments consumed so far in source order; at the end of the pass the
\* emitted groups' segments followed by the segments left unemitted are
\* exactly the input sequence, and the unemitted ones all have duration 0.
C17_OrderPreserved ==
    /\ pc = "loop" =>
          HandedSegments(handed) \o current_segment = Consumed
    /\ pc = "packed" =>
          /\ HandedSegments(handed) \o Unemitted = segments
          /\ \A k \in 1..Len(Unemitted) : Unemitted[k] = 0

\* a finished pass over three or more segments, not all of one duration,
\* that emitted two or more groups, one of them of several segments of
\* different durations
C17_Witness ==
    /\ pc = "packed"
    /\ Len(segments) >= 3
    /\ Len(handed) >= 2
    /\ HandedSegments(handed) = segments
    /\ Unemitted = <<>>
    /\ \E i \in 1..Len(handed) :
          /\ Len(handed[i].audio) >= 2
          /\ handed[i].audio[1] # handed[i].audio[2]
          /\ handed[i].audio[1] > 0
          /\ handed[i].audio[2] > 0

\* C18 (Accumulator invariant): under min <= max, after every step of the
\* pass the accumulator either is shorter than min or holds at most one
\* segment.
C18_AccumulatorInvariant ==
    (ValidCfg /\ pc \in {"loop", "packed"}) =>
        \/ AudioLen(current_segment) < cfg.min_segment_length
        \/ Len(current_segment) <= 1

\* the loop holds an accumulator of two segments below min after it emitted
\* a group of one segment that had reached min
C18_Witness ==
    /\ ValidCfg
    /\ pc = "loop"
    /\ Len(current_segment) >= 2
    /\ AudioLen(current_segment) > 0
    /\ AudioLen(current_segment) < cfg.min_segment_length
    /\ \E i \in 1..Len(handed) :
          /\ Len(handed[i].audio) = 1
          /\ GroupMs(handed[i]) >= cfg.min_segment_length

\* C19 as stated (No empty group): every group handed to the sink has
\* duration_ms > 0.
C19_NoEmptyGroup ==
    \A i \in 1..Len(handed) : GroupMs(handed[i]) > 0

\* number of input segments in the groups emitted before group i
SegmentsBefore(i) == Len(HandedSegments(SubSeq(handed, 1, i - 1)))

\* true offset (ms) in the input of the first segment of group i: the sum
\* of the durations of all earlier segments
TrueOffsetMs(i) == SumSeq(SubSeq(segments, 1, SegmentsBefore(i)))

\* how far (ms) the start of group i lags behind its true offset
DriftMs(i) == TrueOffsetMs(i) - handed[i].start_time * 1000

\* C20 as stated (Timestamp drift bound): for every emitted group,
\* start_time * 1000 <= the true offset of the group's first segment, the
\* gap is strictly less than 1000 ms times the number of earlier groups,
\* and the last group's end_time <= floor(total input duration / 1000).
C20_DriftBoundAsStated ==
    /\ \A i \in 1..Len(handed) :
          /\ handed[i].start_time * 1000 <= TrueOffsetMs(i)
          /\ DriftMs(i) < 1000 * (i - 1)
    /\ (pc = "packed" /\ handed # <<>>) =>
          LastHanded.end_time <= SumSeq(segments) \div 1000

\* C20 amended (Timestamp drift bound): for every emitted group,
\* start_time * 1000 <= the true offset of the group's first segment; the
\* gap is 0 for the first group and strictly less than 1000 ms times the
\* number of earlier groups for every later group; and the last group's
\* end_time <= floor(total input duration / 1000).
C20_DriftBound ==
    /\ \A i \in 1..Len(handed) :
          /\ handed[i].start_time * 1000 <= TrueOffsetMs(i)
          /\ i = 1 => DriftMs(i) = 0
          /\ i > 1 => DriftMs(i) < 1000 * (i - 1)
    /\ (pc = "packed" /\ handed # <<>>) =>
          LastHanded.end_time <= SumSeq(segments) \div 1000

\* a finished pass whose third group starts more than a second before its
\* true offset and whose last end_time is below floor(total / 1000)
C20_Witness ==
    /\ pc = "packed"
    /\ Len(handed) >= 3
    /\ DriftMs(3) > 1000
    /\ DriftMs(2) > 0
    /\ LastHanded.end_time < SumSeq(segments) \div 1000

====
